---------------------------- MODULE Spec2Model ----------------------------
(***************************************************************************)
(* Version Sync: scanning a project tree for Node.js version declarations, *)
(* reporting mismatches (scripts/version-check.ts) and rewriting them to a *)
(* target version with dry-run and backup options (scripts/index.ts).      *)
(*                                                                         *)
(* Text is a sequence of tokens.  A digit, a blank and a quote are one     *)
(* character each; a keyword such as "FROM" or "node-version:" is one      *)
(* token that stands for its characters.  The regular expressions of the   *)
(* source are evaluated over these sequences.                              *)
(***************************************************************************)
EXTENDS Naturals, Sequences, FiniteSets, TLC

(***************************************************************************)
(* Bounds of the model.                                                    *)
(***************************************************************************)
MaxFiles == 2         \* version files present in the initial project tree
MaxReportFiles == 3   \* the same, for the report-only specification
MaxRuns == 2          \* invocations of updateAllVersions in one behaviour
MaxClock == 2         \* largest reading of the millisecond clock
MaxEnv == 1           \* external changes to the project tree in one behaviour

(***************************************************************************)
(* Characters and strings.                                                 *)
(***************************************************************************)
Digit == {"0", "1", "2", "3", "4", "5", "6", "7", "8", "9"}

DigitChar == <<"0", "1", "2", "3", "4", "5", "6", "7", "8", "9">>

DigitVal(c) == CHOOSE n \in 0..9 : DigitChar[n + 1] = c

SQ == "'"

DQ == "\""

NL == "\n"

IsDigit(c) == c \in Digit

IsSpace(c) == c \in {" ", NL}

NonSpace(c) == ~IsSpace(c)

IsQuote(c) == c \in {SQ, DQ}

\* Character classes of the regular expressions: \d, \s and [^\s].
InClass(c, class) ==
    CASE class = "\\d" -> IsDigit(c)
      [] class = "\\s" -> IsSpace(c)
      [] class = "[^\\s]" -> NonSpace(c)

\* The end (exclusive) of the longest run of tokens of a class that starts at i.
RunEnd(s, i, class) ==
    CHOOSE j \in i..(Len(s) + 1) :
        /\ \A k \in i..(j - 1) : InClass(s[k], class)
        /\ j = Len(s) + 1 \/ ~InClass(s[j], class)

RECURSIVE parseInt(_)
\* parseInt(digits, 10) of a run of decimal digits.
parseInt(ds) ==
    IF ds = <<>> THEN 0
    ELSE parseInt(SubSeq(ds, 1, Len(ds) - 1)) * 10 + DigitVal(ds[Len(ds)])

RECURSIVE toString(_)
\* Number.prototype.toString of a natural number.
toString(n) ==
    IF n < 10 THEN <<DigitChar[n + 1]>>
    ELSE toString(n \div 10) \o <<DigitChar[(n % 10) + 1]>>

\* String.prototype.trim
trim(s) ==
    SubSeq(s, RunEnd(s, 1, "\\s"),
           CHOOSE j \in 0..Len(s) :
               /\ \A k \in (j + 1)..Len(s) : IsSpace(s[k])
               /\ j = 0 \/ ~IsSpace(s[j]))

(***************************************************************************)
(* The regular expressions.  A pattern is                                  *)
(*   keyword, blanks (at least wsMin), literal?, quote?, digits (group 1), *)
(*   quote?, run of non-blanks? (group 2)                                  *)
(* with the optional parts switched on per pattern; kw and lit are sets of *)
(* tokens because the patterns are case-insensitive.                       *)
(***************************************************************************)
NoLit == {}

FromNodeRe ==       \* FROM, blanks+, node:, digits, non-blanks; ignoring case
    [kw |-> {"FROM", "from"}, wsMin |-> 1, lit |-> {"node:"}, quote |-> FALSE, suffix |-> TRUE]

ImageNodeRe ==      \* image:, blanks, node:, digits, non-blanks; ignoring case
    [kw |-> {"image:"}, wsMin |-> 0, lit |-> {"node:"}, quote |-> FALSE, suffix |-> TRUE]

NodeVersionRe ==    \* node-version:, blanks, quote?, digits, quote?; ignoring case
    [kw |-> {"node-version:"}, wsMin |-> 0, lit |-> NoLit, quote |-> TRUE, suffix |-> FALSE]

NodeEnvRe ==        \* NODE_VERSION:, blanks, quote?, digits, quote?; ignoring case
    [kw |-> {"NODE_VERSION:"}, wsMin |-> 0, lit |-> NoLit, quote |-> TRUE, suffix |-> FALSE]

NodejsRe ==         \* nodejs, blanks+, digits
    [kw |-> {"nodejs"}, wsMin |-> 1, lit |-> NoLit, quote |-> FALSE, suffix |-> FALSE]

NoMatch == [ok |-> FALSE, from |-> 0, to |-> 0, g1 |-> <<>>, g2 |-> <<>>]

\* The least element of a set of numbers, or dflt for the empty set.
MinOr(S, dflt) == IF S = {} THEN dflt ELSE CHOOSE i \in S : \A j \in S : i <= j

AfterLit(p, b) == IF p.lit = NoLit THEN b ELSE b + 1

SkipQuote(p, s, c) ==
    IF p.quote /\ c <= Len(s) /\ IsQuote(s[c]) THEN c + 1 ELSE c

SuffixEnd(p, s, q) == IF p.suffix THEN RunEnd(s, q, "[^\\s]") ELSE q

\* The positions of a match of p that starts at i: after the blanks (b), at
\* the digits (q1), after them (d), at its end (e).
Blanks(s, i) == RunEnd(s, i + 1, "\\s")

DigitsAt(p, s, i) == SkipQuote(p, s, AfterLit(p, Blanks(s, i)))

DigitsEnd(p, s, i) == RunEnd(s, DigitsAt(p, s, i), "\\d")

MatchEnd(p, s, i) == SuffixEnd(p, s, SkipQuote(p, s, DigitsEnd(p, s, i)))

MatchOf(p, s, i, b, q1, d, e) ==
    IF /\ s[i] \in p.kw
       /\ b - (i + 1) >= p.wsMin
       /\ p.lit = NoLit \/ (b <= Len(s) /\ s[b] \in p.lit)
       /\ q1 <= Len(s)
       /\ d > q1
    THEN [ok |-> TRUE, from |-> i, to |-> e, g1 |-> SubSeq(s, q1, d - 1),
          g2 |-> IF p.suffix THEN SubSeq(s, d, e - 1) ELSE <<>>]
    ELSE NoMatch

\* The match of pattern p in s that starts at index i, if there is one.
MatchAt(p, s, i) ==
    IF i > Len(s) THEN NoMatch
    ELSE MatchOf(p, s, i, Blanks(s, i), DigitsAt(p, s, i), DigitsEnd(p, s, i),
                 MatchEnd(p, s, i))

\* String.prototype.match without the g flag: the leftmost match.
Match(p, s) ==
    MatchAt(p, s, MinOr({i \in 1..Len(s) : MatchAt(p, s, i).ok}, Len(s) + 1))

\* s with the match m replaced by repl.
Splice(s, m, repl) ==
    IF ~m.ok THEN s
    ELSE SubSeq(s, 1, m.from - 1) \o repl \o SubSeq(s, m.to, Len(s))

\* String.prototype.replace with a pattern without the g flag.
ReplaceFirst(p, s, repl) == Splice(s, Match(p, s), repl)

RECURSIVE ReplaceAll(_, _, _)
\* String.prototype.replace with a pattern with the g flag.
ReplaceAllFrom(p, s, repl, m) ==
    IF ~m.ok THEN s
    ELSE SubSeq(s, 1, m.from - 1) \o repl
             \o ReplaceAll(p, SubSeq(s, m.to, Len(s)), repl)

ReplaceAll(p, s, repl) == ReplaceAllFrom(p, s, repl, Match(p, s))

VPrefixOf(s, a, d) == [ok |-> d > a, g1 |-> SubSeq(s, a, d - 1)]

VStart(s) == IF Len(s) >= 1 /\ s[1] = "v" THEN 2 ELSE 1

\* The match of: start of string, v?, digits (group 1).
MatchVPrefix(s) == VPrefixOf(s, VStart(s), RunEnd(s, VStart(s), "\\d"))

FirstDigits(version, i) ==
    IF i > Len(version) THEN 0
    ELSE parseInt(SubSeq(version, i, RunEnd(version, i, "\\d") - 1))

\* Extract major version number from a version string: the first run of
\* digits, or 0 without one.
extractMajorVersion(version) ==
    FirstDigits(version,
                MinOr({i \in 1..Len(version) : IsDigit(version[i])}, Len(version) + 1))

(***************************************************************************)
(* package.json.  A document is the parsed value; JSON.stringify writes it *)
(* as tokens and JSON.parse is its inverse over the three layouts a file   *)
(* is found in (compact, indented by 2 or by 4).                           *)
(***************************************************************************)
Targets == {20, 22}

NodeTexts ==
    { <<">", "=">> \o toString(t) \o <<".", "0", ".", "0">> : t \in Targets }
        \cup { <<">", "=", "1", "8", ".", "0", ".", "0">>,
               <<"^", "2", "0", ".", "1", "1", ".", "0">>,
               <<"l", "t", "s">>,
               <<"2", "2">> }

Indents == {0, 2, 4}

Docs ==
    { d \in [top : {"object", "null"}, name : BOOLEAN, engines : BOOLEAN,
             node : {"absent", "string", "number"}, text : NodeTexts \cup {<<>>}] :
        /\ d.top = "null" => ~d.name /\ ~d.engines
        /\ ~d.engines => d.node = "absent"
        /\ d.node = "absent" => d.text = <<>>
        /\ d.node = "string" => d.text # <<>>
        /\ d.node = "number" => d.text = <<"2", "2">> }

\* JSON.stringify(doc, null, indent)
JSONstringify(doc, indent) ==
    LET pad(n)  == IF indent = 0 THEN <<>>
                   ELSE <<NL>> \o [i \in 1..(n * indent) |-> " "]
        sp      == IF indent = 0 THEN <<>> ELSE <<" ">>
        nodeVal == IF doc.node = "string" THEN <<DQ>> \o doc.text \o <<DQ>>
                   ELSE doc.text
        engObj  == IF doc.node = "absent" THEN <<"{", "}">>
                   ELSE <<"{">> \o pad(2) \o <<"\"node\":">> \o sp \o nodeVal
                            \o pad(1) \o <<"}">>
        nameMem == pad(1) \o <<"\"name\":">> \o sp \o <<"\"app\"">>
        engMem  == pad(1) \o <<"\"engines\":">> \o sp \o engObj
        members == IF doc.name /\ doc.engines THEN nameMem \o <<",">> \o engMem
                   ELSE IF doc.name THEN nameMem
                   ELSE IF doc.engines THEN engMem
                   ELSE <<>>
    IN  IF doc.top = "null" THEN <<"null">>
        ELSE IF members = <<>> THEN <<"{", "}">>
        ELSE <<"{">> \o members \o pad(0) \o <<"}">>

NullDoc ==
    [top |-> "null", name |-> FALSE, engines |-> FALSE, node |-> "absent", text |-> <<>>]

\* JSON.parse(text): the document, or a SyntaxError.
PickDoc(cands) ==
    IF cands = {} THEN [ok |-> FALSE, doc |-> NullDoc]
    ELSE [ok |-> TRUE, doc |-> CHOOSE d \in cands : TRUE]

DocsOf(body) == {d \in Docs : \E ind \in Indents : JSONstringify(d, ind) = body}

JSONparse(text) == PickDoc(DocsOf(trim(text)))

(***************************************************************************)
(* The file system: a function from the names present to their content and *)
(* permission.  A name is a sequence of name parts.                        *)
(***************************************************************************)
NvmrcPath == <<".nvmrc">>

PackageJsonPath == <<"package.json">>

DockerfilePath == <<"Dockerfile">>

DockerComposePath == <<"docker-compose", ".yml">>

NodeVersionPath == <<".node-version">>

ToolVersionsPath == <<".tool-versions">>

WorkflowDir == ".github/workflows/"

WorkflowNames == { <<WorkflowDir, "ci", ".yml">>, <<WorkflowDir, "release", ".yaml">> }

Modes == {"rw", "r-", "--"}

existsSync(f, n) == n \in DOMAIN f

\* fs.readFileSync(n) returns; otherwise it throws (ENOENT, EACCES).
CanRead(f, n) == n \in DOMAIN f /\ f[n].mode # "--"

\* String.prototype.endsWith on a name
endsWith(n, ext) == n[Len(n)] = ext

RECURSIVE SetToSeq(_)
SetToSeq(S) ==
    IF S = {} THEN <<>>
    ELSE LET x == CHOOSE y \in S : TRUE IN <<x>> \o SetToSeq(S \ {x})

\* fs.readdirSync(workflowDir): the entries, in the directory's order.
readdirSync(f) == SetToSeq({n \in DOMAIN f : n[1] = WorkflowDir})

(***************************************************************************)
(* scripts/version-check.ts: one check per format.  A check yields         *)
(* [threw, recs]: threw when an exception leaves it, recs its records.     *)
(***************************************************************************)
VersionInfo(file, current, full, major, type) ==
    [file |-> file, currentVersion |-> current, fullVersion |-> full,
     majorVersion |-> major, fileType |-> type]

Threw == [threw |-> TRUE, recs |-> <<>>]

None == [threw |-> FALSE, recs |-> <<>>]

Some(v) == [threw |-> FALSE, recs |-> <<v>>]

\* checkNvmrc and checkNodeVersion: the trimmed content, v?digits at its start.
VersionFileRecord(path, type, content, match) ==
    IF ~match.ok THEN None
    ELSE Some(VersionInfo(path, match.g1, content, parseInt(match.g1), type))

checkVersionFile(f, path, type) ==
    IF ~existsSync(f, path) THEN None
    ELSE IF ~CanRead(f, path) THEN Threw
    ELSE VersionFileRecord(path, type, trim(f[path].content),
                           MatchVPrefix(trim(f[path].content)))

checkNvmrc(f) == checkVersionFile(f, NvmrcPath, "nvmrc")

checkNodeVersion(f) == checkVersionFile(f, NodeVersionPath, "node-version")

\* The record of a parsed package.json; a SyntaxError, and the TypeError of
\* a node field that is no string, are caught.
PackageJsonRecord(parsed) ==
    IF ~parsed.ok \/ parsed.doc.node # "string" THEN None
    ELSE Some(VersionInfo(PackageJsonPath,
                          toString(extractMajorVersion(parsed.doc.text)),
                          parsed.doc.text,
                          extractMajorVersion(parsed.doc.text),
                          "package.json"))

checkPackageJson(f) ==
    IF ~existsSync(f, PackageJsonPath) THEN None
    ELSE IF ~CanRead(f, PackageJsonPath) THEN None          \* caught
    ELSE PackageJsonRecord(JSONparse(f[PackageJsonPath].content))

\* The record of a match: its digits and, where the format has one, its suffix.
MatchRecord(path, type, match) ==
    IF ~match.ok THEN None
    ELSE Some(VersionInfo(path, match.g1, match.g1 \o match.g2,
                          parseInt(match.g1), type))

checkMatchFile(f, path, re, type) ==
    IF ~existsSync(f, path) THEN None
    ELSE IF ~CanRead(f, path) THEN Threw
    ELSE MatchRecord(path, type, Match(re, f[path].content))

checkDockerfile(f) == checkMatchFile(f, DockerfilePath, FromNodeRe, "dockerfile")

checkDockerCompose(f) ==
    checkMatchFile(f, DockerComposePath, ImageNodeRe, "docker-compose")

checkToolVersions(f) ==
    checkMatchFile(f, ToolVersionsPath, NodejsRe, "tool-versions")

\* One workflow file: node-version when it matches, NODE_VERSION otherwise.
WorkflowMatch(nodeVersionMatch, nodeEnvMatch) ==
    IF nodeVersionMatch.ok THEN nodeVersionMatch ELSE nodeEnvMatch

WorkflowRecord(filePath, content) ==
    MatchRecord(filePath, "github-workflow",
                WorkflowMatch(Match(NodeVersionRe, content),
                              Match(NodeEnvRe, content))).recs

RECURSIVE WorkflowLoop(_, _, _)
\* The loop over the workflow files; a file that cannot be read ends it
\* (the catch around the loop), keeping the records found so far.
WorkflowLoop(f, files, results) ==
    IF files = <<>> THEN results
    ELSE IF ~CanRead(f, Head(files)) THEN results
    ELSE WorkflowLoop(f, Tail(files),
                      results \o WorkflowRecord(Head(files), f[Head(files)].content))

\* A variant of the filter that looks for the extension anywhere in the name.
IsYamlAnywhere(n) == \E k \in 1..Len(n) : n[k] \in {".yml", ".yaml"}

IsYaml(n) == endsWith(n, ".yml") \/ endsWith(n, ".yaml")

checkGitHubWorkflows(f) == WorkflowLoop(f, SelectSeq(readdirSync(f), IsYaml), <<>>)

Collect(checks, workflowVersions) ==
    IF \E i \in 1..Len(checks) : checks[i].threw
    THEN [threw |-> TRUE, versions |-> <<>>]
    ELSE [threw |-> FALSE,
          versions |-> checks[1].recs \o checks[2].recs \o checks[3].recs
                           \o checks[4].recs \o checks[5].recs \o checks[6].recs
                           \o workflowVersions]

\* Scan project for all Node.js version specifications.
scanVersions(f) ==
    Collect(<<checkNvmrc(f), checkPackageJson(f), checkDockerfile(f),
              checkDockerCompose(f), checkNodeVersion(f), checkToolVersions(f)>>,
            checkGitHubWorkflows(f))

(***************************************************************************)
(* Generate version report with mismatch detection.  An optional number is *)
(* a sequence of length 0 (undefined, null) or 1.                          *)
(***************************************************************************)
Undefined == <<>>

RECURSIVE CountLoop(_, _)
\* versionCounts, a Map: its entries in insertion order.
Count(counts, m, at) ==
    IF at = {} THEN Append(counts, [ver |-> m, count |-> 1])
    ELSE [counts EXCEPT ![CHOOSE i \in at : TRUE].count = @ + 1]

CountLoop(versions, counts) ==
    IF versions = <<>> THEN counts
    ELSE CountLoop(Tail(versions),
                   Count(counts, Head(versions).majorVersion,
                         {i \in 1..Len(counts) :
                              counts[i].ver = Head(versions).majorVersion}))

RECURSIVE MaxLoopLast(_, _, _)
\* A variant of the loop in which a later entry with an equal count wins.
MaxLoopLast(counts, maxCount, resolvedTarget) ==
    IF counts = <<>> THEN resolvedTarget
    ELSE IF Head(counts).count >= maxCount
         THEN MaxLoopLast(Tail(counts), Head(counts).count, <<Head(counts).ver>>)
         ELSE MaxLoopLast(Tail(counts), maxCount, resolvedTarget)

RECURSIVE MaxLoop(_, _, _)
\* for (const [ver, count] of versionCounts) if (count > maxCount) ...
MaxLoop(counts, maxCount, resolvedTarget) ==
    IF counts = <<>> THEN resolvedTarget
    ELSE IF Head(counts).count > maxCount
         THEN MaxLoop(Tail(counts), Head(counts).count, <<Head(counts).ver>>)
         ELSE MaxLoop(Tail(counts), maxCount, resolvedTarget)

\* A variant that reports a mismatch as soon as there are two records.
HasMismatchAny(versions) == Len(versions) > 1

\* new Set(versions.map(v => v.majorVersion)).size > 1
HasMismatch(versions) ==
    Cardinality({versions[i].majorVersion : i \in 1..Len(versions)}) > 1

\* Use provided target or most common version.
ResolveTarget(versions, targetVersion) ==
    IF (targetVersion = Undefined \/ targetVersion = <<0>>) /\ Len(versions) > 0
    THEN MaxLoop(CountLoop(versions, <<>>), 0, targetVersion)
    ELSE targetVersion

ReportOf(scan, targetVersion) ==
    IF scan.threw
    THEN [status |-> "threw", versions |-> <<>>, hasMismatch |-> FALSE,
          targetVersion |-> Undefined, given |-> targetVersion]
    ELSE [status |-> "returned", versions |-> scan.versions,
          hasMismatch |-> HasMismatch(scan.versions),
          targetVersion |-> ResolveTarget(scan.versions, targetVersion),
          given |-> targetVersion]

generateReport(f, targetVersion) == ReportOf(scanVersions(f), targetVersion)

(***************************************************************************)
(* The project trees the behaviours start from.                            *)
(***************************************************************************)
Pkg(name, engines, node, text, indent) ==
    JSONstringify([top |-> "object", name |-> name, engines |-> engines,
                   node |-> node, text |-> text], indent) \o <<NL>>

Contents(path) ==
    CASE path = NvmrcPath ->
           { <<"2", "0", NL>>,
             <<"v", "2", "2", ".", "1", ".", "0", NL>>,
             <<"l", "t", "s", "/", "*", NL>> }
      [] path = PackageJsonPath ->
           { Pkg(TRUE, TRUE, "string", <<">", "=", "1", "8", ".", "0", ".", "0">>, 4),
             Pkg(FALSE, TRUE, "string", <<"^", "2", "0", ".", "1", "1", ".", "0">>, 0),
             Pkg(TRUE, TRUE, "string", <<">", "=", "2", "2", ".", "0", ".", "0">>, 2),
             Pkg(TRUE, TRUE, "string", <<"l", "t", "s">>, 2),
             Pkg(TRUE, FALSE, "absent", <<>>, 2),
             <<"{", "\"name\":">> }
      [] path = DockerfilePath ->
           { <<"FROM", " ", "node:", "2", "0", "-slim", NL, "RUN", " ", "npm", NL>>,
             <<"FROM", " ", "node:", "1", "8", "-alpine", " ", "AS", " ", "build", NL,
               "FROM", " ", "node:", "2", "0", "-slim", NL>>,
             <<"from", " ", " ", "node:", "2", "2", NL>>,
             <<"FROM", " ", "python:", "3", NL>> }
      [] path = DockerComposePath ->
           { <<"services:", NL, " ", "image:", " ", "node:", "1", "8", "-alpine", NL>>,
             <<"image:", "node:", "2", "2", ".", "3", NL>>,
             <<"image:", " ", "postgres:", "1", "6", NL>> }
      [] path = NodeVersionPath ->
           { <<"1", "8", ".", "2", "0", ".", "0">>,
             <<"v", "2", "0", NL>> }
      [] path = ToolVersionsPath ->
           { <<"nodejs", " ", "2", "0", ".", "1", "1", ".", "0", NL>>,
             <<"python", " ", "3", NL, "nodejs", " ", "1", "8", NL>>,
             <<"ruby", " ", "3", NL>> }
      [] path = <<WorkflowDir, "ci", ".yml">> ->
           { <<"node-version:", " ", "2", "0", NL>>,
             <<"node-version:", " ", SQ, "1", "8", ".x", SQ, NL>>,
             <<"NODE_VERSION:", " ", "2", "0", NL, "node-version:", " ", "2", "2", NL>>,
             <<"name:", " ", "CI", NL>> }
      [] path = <<WorkflowDir, "release", ".yaml">> ->
           { <<"NODE_VERSION:", " ", DQ, "1", "8", DQ, NL,
               "node-version:", " ", "${{env.NODE_VERSION}}", NL>>,
             <<"node-version:", " ", "2", "2", NL>> }

Paths ==
    {NvmrcPath, PackageJsonPath, DockerfilePath, DockerComposePath,
     NodeVersionPath, ToolVersionsPath} \cup WorkflowNames

\* Every tree of at most n readable and writable files.
Trees(n) ==
    UNION { [ps -> [content : UNION {Contents(p) : p \in ps}, mode : {"rw"}]] :
              ps \in {qs \in SUBSET Paths : Cardinality(qs) <= n} }

ProjectTrees(n) ==
    {t \in Trees(n) : \A p \in DOMAIN t : t[p].content \in Contents(p)}

(***************************************************************************)
(* scripts/index.ts: the update of one file.  An update yields             *)
(*   [threw, result, fs, ops]                                              *)
(* threw when an exception leaves the function, the UpdateResult it        *)
(* returns otherwise, the file system it leaves and the calls of           *)
(* fs.copyFileSync and fs.writeFileSync it made, in order.                 *)
(***************************************************************************)
UpdateResult(file, old, new, success, error, backedUp) ==
    [file |-> file, oldVersion |-> old, newVersion |-> new,
     success |-> success, error |-> error, backedUp |-> backedUp]

NoResult == UpdateResult(<<>>, <<>>, <<>>, FALSE, "", FALSE)

Returns(result, f, ops) == [threw |-> FALSE, result |-> result, fs |-> f, ops |-> ops]

Throws(f) == [threw |-> TRUE, result |-> NoResult, fs |-> f, ops |-> <<>>]

\* filePath + ".backup." + Date.now()
BackupPath(filePath, clock) == filePath \o <<".backup.">> \o toString(clock)

\* fs.copyFileSync(filePath, backupPath) returns: the source can be read, the
\* destination is absent or writable (it is overwritten), there is room.
CanCopy(f, io, filePath, backupPath) ==
    /\ CanRead(f, filePath)
    /\ ~io.full
    /\ backupPath \in DOMAIN f => f[backupPath].mode = "rw"

\* fs.writeFileSync(filePath, content) returns.
CanWrite(f, io, filePath) ==
    /\ ~io.full
    /\ filePath \in DOMAIN f => f[filePath].mode = "rw"

Put(f, n, file) == [m \in DOMAIN f \cup {n} |-> IF m = n THEN file ELSE f[m]]

writeFileSync(f, filePath, content) ==
    Put(f, filePath, [content |-> content,
                      mode |-> IF filePath \in DOMAIN f THEN f[filePath].mode ELSE "rw"])

\* Create a backup of a file before modifying.
backupFile(f, io, filePath) == Put(f, BackupPath(filePath, io.now), f[filePath])

\* A variant that writes first and takes the backup afterwards.
WriteThenBackup(f, io, options, filePath, newContent, old, new, oldOnError) ==
    LET written == CanWrite(f, io, filePath)
        f1      == IF written THEN writeFileSync(f, filePath, newContent) ELSE f
        copied  == /\ written
                   /\ options.backup
                   /\ CanCopy(f1, io, filePath, BackupPath(filePath, io.now))
    IN  Returns(UpdateResult(filePath, IF written THEN old ELSE oldOnError, new,
                             written, IF written THEN "" ELSE "Error: writeFileSync",
                             copied),
                IF copied THEN Put(f1, BackupPath(filePath, io.now), f1[filePath])
                ELSE f1,
                <<[op |-> "writeFile", path |-> filePath, to |-> filePath,
                   ok |-> written]>>
                    \o IF written /\ options.backup
                       THEN <<[op |-> "copyFile", path |-> filePath,
                               to |-> BackupPath(filePath, io.now), ok |-> copied]>>
                       ELSE <<>>)

\* The try block every update function ends with: the backup when asked for,
\* the write, and the result; any exception gives the failed result.
WriteWithBackup(f, io, options, filePath, newContent, old, new, oldOnError) ==
    LET backupPath == BackupPath(filePath, io.now)
        copied  == options.backup /\ CanCopy(f, io, filePath, backupPath)
        f1      == IF copied THEN backupFile(f, io, filePath) ELSE f
        copyOp  == IF options.backup
                   THEN <<[op |-> "copyFile", path |-> filePath, to |-> backupPath,
                           ok |-> copied]>>
                   ELSE <<>>
        writes  == ~options.backup \/ copied
        written == writes /\ CanWrite(f1, io, filePath)
        f2      == IF written THEN writeFileSync(f1, filePath, newContent) ELSE f1
        writeOp == IF writes
                   THEN <<[op |-> "writeFile", path |-> filePath, to |-> filePath,
                           ok |-> written]>>
                   ELSE <<>>
    IN  IF written
        THEN Returns(UpdateResult(filePath, old, new, TRUE, "", options.backup),
                     f2, copyOp \o writeOp)
        ELSE Returns(UpdateResult(filePath, oldOnError, new, FALSE,
                                  IF writes THEN "Error: writeFileSync"
                                  ELSE "Error: copyFileSync", FALSE),
                     f2, copyOp \o writeOp)

\* A variant of the dry-run return that writes the new version to the file.
DryRunWrites(f, filePath, old, new) ==
    Returns(UpdateResult(filePath, old, new, TRUE, "", FALSE),
            writeFileSync(f, filePath, new), <<>>)

DryRunResult(f, filePath, old, new) ==
    Returns(UpdateResult(filePath, old, new, TRUE, "", FALSE), f, <<>>)

Failed(f, filePath, old, new, error) ==
    Returns(UpdateResult(filePath, old, new, FALSE, error, FALSE), f, <<>>)

\* Update .nvmrc file
updateNvmrc(f, io, filePath, targetVersion, options) ==
    IF ~CanRead(f, filePath) THEN Throws(f)
    ELSE LET content    == trim(f[filePath].content)
             newContent == toString(targetVersion) \o <<NL>>
         IN  IF options.dryRun
             THEN DryRunResult(f, filePath, content, toString(targetVersion))
             ELSE WriteWithBackup(f, io, options, filePath, newContent,
                                  content, toString(targetVersion), content)

\* Update package.json engines.node field
PackageJsonUpdate(f, io, filePath, options, newVersion, parsed) ==
    IF ~parsed.ok THEN Failed(f, filePath, <<>>, newVersion, "SyntaxError")
    ELSE IF options.dryRun
    THEN DryRunResult(f, filePath, parsed.doc.text, newVersion)
    ELSE IF parsed.doc.top = "null"
    THEN Failed(f, filePath, <<>>, newVersion, "TypeError")
    ELSE WriteWithBackup(f, io, options, filePath,
                         JSONstringify([parsed.doc EXCEPT !.engines = TRUE,
                                                          !.node = "string",
                                                          !.text = newVersion], 2)
                             \o <<NL>>,
                         parsed.doc.text, newVersion, <<>>)

NodeRange(targetVersion) ==
    <<">", "=">> \o toString(targetVersion) \o <<".", "0", ".", "0">>

updatePackageJson(f, io, filePath, targetVersion, options) ==
    IF ~CanRead(f, filePath)
    THEN Failed(f, filePath, <<>>, NodeRange(targetVersion), "Error: readFileSync")
    ELSE PackageJsonUpdate(f, io, filePath, options, NodeRange(targetVersion),
                           JSONparse(f[filePath].content))

\* A variant of the rewrite that puts the old number back.
MatchUpdateStale(f, io, filePath, targetVersion, options, keyword, notFound, match) ==
    IF ~match.ok
    THEN Failed(f, filePath, <<>>, toString(targetVersion), notFound)
    ELSE IF options.dryRun
    THEN DryRunResult(f, filePath, match.g1 \o match.g2,
                      toString(targetVersion) \o match.g2)
    ELSE WriteWithBackup(f, io, options, filePath,
                         Splice(f[filePath].content, match,
                                keyword \o match.g1 \o match.g2),
                         match.g1 \o match.g2,
                         toString(targetVersion) \o match.g2,
                         match.g1 \o match.g2)

\* A variant of the rewrite that drops the suffix of the match.
MatchUpdateNoSuffix(f, io, filePath, targetVersion, options, keyword, notFound, match) ==
    IF ~match.ok
    THEN Failed(f, filePath, <<>>, toString(targetVersion), notFound)
    ELSE IF options.dryRun
    THEN DryRunResult(f, filePath, match.g1 \o match.g2,
                      toString(targetVersion) \o match.g2)
    ELSE WriteWithBackup(f, io, options, filePath,
                         Splice(f[filePath].content, match,
                                keyword \o toString(targetVersion)),
                         match.g1 \o match.g2,
                         toString(targetVersion) \o match.g2,
                         match.g1 \o match.g2)

\* updateDockerfile, updateDockerCompose and updateToolVersions: the first
\* match is replaced by the keyword, the target and the suffix of the match.
MatchUpdate(f, io, filePath, targetVersion, options, keyword, notFound, match) ==
    IF ~match.ok
    THEN Failed(f, filePath, <<>>, toString(targetVersion), notFound)
    ELSE IF options.dryRun
    THEN DryRunResult(f, filePath, match.g1 \o match.g2,
                      toString(targetVersion) \o match.g2)
    ELSE WriteWithBackup(f, io, options, filePath,
                         Splice(f[filePath].content, match,
                                keyword \o toString(targetVersion) \o match.g2),
                         match.g1 \o match.g2,
                         toString(targetVersion) \o match.g2,
                         match.g1 \o match.g2)

updateMatchFile(f, io, filePath, targetVersion, options, re, keyword, notFound) ==
    IF ~CanRead(f, filePath) THEN Throws(f)
    ELSE MatchUpdate(f, io, filePath, targetVersion, options, keyword, notFound,
                     Match(re, f[filePath].content))

updateDockerfile(f, io, filePath, targetVersion, options) ==
    updateMatchFile(f, io, filePath, targetVersion, options, FromNodeRe,
                    <<"FROM", " ", "node:">>, "No FROM node: line found")

updateDockerCompose(f, io, filePath, targetVersion, options) ==
    updateMatchFile(f, io, filePath, targetVersion, options, ImageNodeRe,
                    <<"image:", " ", "node:">>, "No image: node: line found")

\* Update .tool-versions file (asdf)
updateToolVersions(f, io, filePath, targetVersion, options) ==
    updateMatchFile(f, io, filePath, targetVersion, options, NodejsRe,
                    <<"nodejs", " ">>, "No nodejs line found")

\* Update GitHub workflow file
WorkflowUpdate(f, io, filePath, targetVersion, options, nodeVersionMatch, nodeEnvMatch, content) ==
    IF ~(nodeVersionMatch.ok \/ nodeEnvMatch.ok)
    THEN Failed(f, filePath, <<>>, toString(targetVersion),
                "No node version pattern found")
    ELSE IF options.dryRun
    THEN DryRunResult(f, filePath,
                      WorkflowMatch(nodeVersionMatch, nodeEnvMatch).g1,
                      toString(targetVersion))
    ELSE WriteWithBackup(f, io, options, filePath, content,
                         WorkflowMatch(nodeVersionMatch, nodeEnvMatch).g1,
                         toString(targetVersion),
                         WorkflowMatch(nodeVersionMatch, nodeEnvMatch).g1)

Quoted(targetVersion) == <<SQ>> \o toString(targetVersion) \o <<SQ>>

\* content after the node-version rewrite, then after the NODE_VERSION one
WorkflowEnv(f, io, filePath, targetVersion, options, nodeVersionMatch, content) ==
    WorkflowUpdate(f, io, filePath, targetVersion, options, nodeVersionMatch,
                   Match(NodeEnvRe, content),
                   ReplaceAll(NodeEnvRe, content,
                              <<"NODE_VERSION:", " ">> \o Quoted(targetVersion)))

updateGitHubWorkflow(f, io, filePath, targetVersion, options) ==
    IF ~CanRead(f, filePath) THEN Throws(f)
    ELSE WorkflowEnv(f, io, filePath, targetVersion, options,
                     Match(NodeVersionRe, f[filePath].content),
                     ReplaceAll(NodeVersionRe, f[filePath].content,
                                <<"node-version:", " ">> \o Quoted(targetVersion)))

\* Update .node-version file
updateNodeVersionFile(f, io, filePath, targetVersion, options) ==
    IF ~CanRead(f, filePath) THEN Throws(f)
    ELSE LET content    == trim(f[filePath].content)
             newContent == toString(targetVersion) \o <<NL>>
         IN  IF options.dryRun
             THEN DryRunResult(f, filePath, content, toString(targetVersion))
             ELSE WriteWithBackup(f, io, options, filePath, newContent,
                                  content, toString(targetVersion), content)

\* Update a single version file based on its type
updateVersionFile(f, io, versionInfo, targetVersion, options) ==
    CASE versionInfo.fileType = "nvmrc" ->
           updateNvmrc(f, io, versionInfo.file, targetVersion, options)
      [] versionInfo.fileType = "package.json" ->
           updatePackageJson(f, io, versionInfo.file, targetVersion, options)
      [] versionInfo.fileType = "dockerfile" ->
           updateDockerfile(f, io, versionInfo.file, targetVersion, options)
      [] versionInfo.fileType = "docker-compose" ->
           updateDockerCompose(f, io, versionInfo.file, targetVersion, options)
      [] versionInfo.fileType = "github-workflow" ->
           updateGitHubWorkflow(f, io, versionInfo.file, targetVersion, options)
      [] versionInfo.fileType = "node-version" ->
           updateNodeVersionFile(f, io, versionInfo.file, targetVersion, options)
      [] versionInfo.fileType = "tool-versions" ->
           updateToolVersions(f, io, versionInfo.file, targetVersion, options)
      [] OTHER ->
           Failed(f, versionInfo.file, versionInfo.fullVersion,
                  toString(targetVersion), "Unknown file type")

\* A variant of the loop without the skip of records already at the target.
UpdateOneNoSkip(f, io, versionInfo, targetVersion, options) ==
    updateVersionFile(f, io, versionInfo, targetVersion, options)

\* One turn of the loop of updateAllVersions.
UpdateOne(f, io, versionInfo, targetVersion, options) ==
    IF versionInfo.majorVersion = targetVersion
    THEN Returns(UpdateResult(versionInfo.file, versionInfo.fullVersion,
                              toString(targetVersion), TRUE, "", FALSE), f, <<>>)
    ELSE updateVersionFile(f, io, versionInfo, targetVersion, options)

VARIABLES
    fs,        \* the files of the project: name -> [content, mode]
    now,       \* Date.now(), in milliseconds
    diskFull,  \* no room left on the device
    report,    \* what the last generateReport returned
    pc,        \* "idle", or "loop" inside updateAllVersions
    target,    \* targetVersion of the current (or last) updateAllVersions
    opts,      \* its options: [dryRun, backup]
    versions,  \* its scan
    idx,       \* the record its loop is at
    results,   \* its results so far
    trace,     \* per result, the file system calls made for it
    outcome,   \* "none", "returned" or "threw": how the last call ended
    fsStart,   \* the file system when the current (or last) call started
    prev,      \* the call before it: [outcome, target, dryRun]
    runs,      \* calls of updateAllVersions so far
    envLeft,   \* external changes still allowed
    argv,      \* process.argv.slice(2) of the command line process, if any
    exitCode   \* its exit code, once it has exited

vars ==
    <<fs, now, diskFull, report, pc, target, opts, versions, idx, results,
      trace, outcome, fsStart, prev, runs, envLeft, argv, exitCode>>

mainVars == <<argv, exitCode>>

updateVars ==
    <<pc, target, opts, versions, idx, results, trace, outcome, fsStart, prev, runs>>

NoReport ==
    [status |-> "none", versions |-> <<>>, hasMismatch |-> FALSE,
     targetVersion |-> Undefined, given |-> Undefined]

DEFAULT_OPTIONS == [dryRun |-> FALSE, backup |-> TRUE]

Start(trees) ==
    /\ fs \in trees
    /\ now = 1
    /\ diskFull = FALSE
    /\ report = NoReport
    /\ pc = "idle"
    /\ target = 0
    /\ opts = DEFAULT_OPTIONS
    /\ versions = <<>>
    /\ idx = 1
    /\ results = <<>>
    /\ trace = <<>>
    /\ outcome = "none"
    /\ fsStart = fs
    /\ prev = [outcome |-> "none", target |-> 0, dryRun |-> FALSE]
    /\ runs = 0
    /\ envLeft = MaxEnv

\* No command line process: the functions are called as a library.
NoMain == argv = <<>> /\ exitCode = Undefined

Init == Start(ProjectTrees(MaxFiles)) /\ NoMain

IO == [full |-> diskFull, now |-> now]

\* updateAllVersions(projectRoot, t, {dryRun, backup}) up to its loop.
Scanned(scan) ==
    /\ versions' = scan.versions
    /\ pc' = IF scan.threw THEN "idle" ELSE "loop"
    /\ outcome' = IF scan.threw THEN "threw" ELSE "none"

UpdateStart(t, dryRun, backup) ==
    /\ pc = "idle"
    /\ runs < MaxRuns
    /\ runs' = runs + 1
    /\ target' = t
    /\ opts' = [dryRun |-> dryRun, backup |-> backup]
    /\ prev' = [outcome |-> outcome, target |-> target, dryRun |-> opts.dryRun]
    /\ fsStart' = fs
    /\ idx' = 1
    /\ results' = <<>>
    /\ trace' = <<>>
    /\ Scanned(scanVersions(fs))
    /\ UNCHANGED <<fs, now, diskFull, report, envLeft>>
    /\ UNCHANGED mainVars

\* One turn of its loop: the record at idx.
Updated(e) ==
    /\ fs' = e.fs
    /\ IF e.threw
       THEN /\ pc' = "idle"
            /\ outcome' = "threw"
            /\ UNCHANGED <<idx, results, trace>>
       ELSE /\ idx' = idx + 1
            /\ results' = Append(results, e.result)
            /\ trace' = Append(trace, e.ops)
            /\ UNCHANGED <<pc, outcome>>

UpdateStep ==
    /\ pc = "loop"
    /\ idx <= Len(versions)
    /\ Updated(UpdateOne(fs, IO, versions[idx], target, opts))
    /\ UNCHANGED <<now, diskFull, report, target, opts, versions, fsStart, prev,
                   runs, envLeft>>
    /\ UNCHANGED mainVars

\* return results
UpdateReturn ==
    /\ pc = "loop"
    /\ idx > Len(versions)
    /\ pc' = "idle"
    /\ outcome' = "returned"
    /\ UNCHANGED <<fs, now, diskFull, report, target, opts, versions, idx, results,
                   trace, fsStart, prev, runs, envLeft>>
    /\ UNCHANGED mainVars

\* The clock advances between two calls.
Tick ==
    /\ pc = "idle"
    /\ runs < MaxRuns
    /\ now < MaxClock
    /\ now' = now + 1
    /\ UNCHANGED <<fs, diskFull, report, envLeft>>
    /\ UNCHANGED updateVars
    /\ UNCHANGED mainVars

Update ==
    \/ \E t \in Targets, dryRun \in BOOLEAN, backup \in BOOLEAN :
           UpdateStart(t, dryRun, backup)
    \/ UpdateStep
    \/ UpdateReturn

Next == Update \/ Tick

\* Calls of updateAllVersions, one after the other, on a project tree that
\* nothing else touches.
Spec == Init /\ [][Next]_vars

(***************************************************************************)
(* One call of updateAllVersions on a project tree that another process    *)
(* changes, before the call or between two turns of its loop.              *)
(***************************************************************************)
\* Another process changes the permission of a project file,
EnvChmod(p, m) ==
    /\ envLeft > 0
    /\ p \in DOMAIN fs
    /\ fs[p].mode # m
    /\ fs' = [fs EXCEPT ![p].mode = m]
    /\ envLeft' = envLeft - 1
    /\ UNCHANGED <<now, diskFull, report>>
    /\ UNCHANGED updateVars
    /\ UNCHANGED mainVars

\* removes it,
EnvRemove(p) ==
    /\ envLeft > 0
    /\ p \in DOMAIN fs
    /\ fs' = [q \in DOMAIN fs \ {p} |-> fs[q]]
    /\ envLeft' = envLeft - 1
    /\ UNCHANGED <<now, diskFull, report>>
    /\ UNCHANGED updateVars
    /\ UNCHANGED mainVars

\* rewrites it,
EnvWrite(p, c) ==
    /\ envLeft > 0
    /\ p \in DOMAIN fs
    /\ fs[p].content # c
    /\ fs' = [fs EXCEPT ![p].content = c]
    /\ envLeft' = envLeft - 1
    /\ UNCHANGED <<now, diskFull, report>>
    /\ UNCHANGED updateVars
    /\ UNCHANGED mainVars

\* or fills the disk.
EnvDiskFull ==
    /\ envLeft > 0
    /\ ~diskFull
    /\ diskFull' = TRUE
    /\ envLeft' = envLeft - 1
    /\ UNCHANGED <<fs, now, report>>
    /\ UNCHANGED updateVars
    /\ UNCHANGED mainVars

Env ==
    \/ \E p \in Paths, m \in Modes : EnvChmod(p, m)
    \/ \E p \in Paths : EnvRemove(p)
    \/ \E p \in Paths : \E c \in Contents(p) : EnvWrite(p, c)
    \/ EnvDiskFull

FaultUpdate ==
    \/ /\ runs = 0
       /\ \E t \in Targets, dryRun \in BOOLEAN, backup \in BOOLEAN :
              UpdateStart(t, dryRun, backup)
    \/ UpdateStep
    \/ UpdateReturn

\* A change after the call has ended is seen by nothing.
FaultEnv ==
    /\ runs = 0 \/ pc = "loop"
    /\ Env

FaultNext == FaultUpdate \/ FaultEnv

FaultSpec == Init /\ [][FaultNext]_vars

(***************************************************************************)
(* The report on its own: generateReport over every project tree.          *)
(***************************************************************************)
ReportInit == Start(ProjectTrees(MaxReportFiles)) /\ NoMain

\* The check command, and the report the update command starts with.
GenerateReport ==
    /\ pc = "idle"
    /\ \E t \in {Undefined} \cup {<<v>> : v \in Targets} :
           report' = generateReport(fs, t)
    /\ UNCHANGED <<fs, now, diskFull, envLeft>>
    /\ UNCHANGED updateVars
    /\ UNCHANGED mainVars

ReportNext == GenerateReport

ReportSpec == ReportInit /\ [][ReportNext]_vars

(***************************************************************************)
(* The command line process: main() of scripts/index.ts with the commands  *)
(* check and update.  An argument is a text; argv is the list of them.     *)
(***************************************************************************)
UpdateCommand == <<"update">>

CheckCommand == <<"check">>

DryRunFlag == <<"--dry-run">>

NoBackupFlag == <<"--no-backup">>

Argvs ==
    { <<CheckCommand>>,
      <<UpdateCommand>>,
      <<UpdateCommand, DryRunFlag>>,
      <<UpdateCommand, <<"a", "b", "c">> >>,
      <<UpdateCommand, <<"0">> >>,
      <<UpdateCommand, <<"-", "5">> >>,
      <<UpdateCommand, <<"2", "2">> >>,
      <<UpdateCommand, <<"2", "0">>, DryRunFlag>>,
      <<UpdateCommand, <<"2", "2">>, NoBackupFlag>>,
      <<UpdateCommand, <<"2", "2", "a", "b", "c">> >>,
      <<UpdateCommand, <<"2", "0">>, DryRunFlag, NoBackupFlag>> }

\* args.includes(flag)
includes(args, flag) == \E i \in 1..Len(args) : args[i] = flag

\* parseInt(text, 10): an optional sign, then the longest run of digits; NaN
\* without a digit there.  What follows the digits is ignored.
SignEnd(a) == IF Len(a) >= 1 /\ a[1] \in {"-", "+"} THEN 2 ELSE 1

ParsedAt(a, st, d) ==
    [nan |-> d = st,
     neg |-> st = 2 /\ a[1] = "-",
     val |-> parseInt(SubSeq(a, st, d - 1))]

parseIntPrefix(a) == ParsedAt(a, SignEnd(a), RunEnd(a, SignEnd(a), "\\d"))

\* !versionArg || isNaN(targetVersion) || targetVersion < 1
RejectsParsed(n) == n.nan \/ n.neg \/ n.val < 1

RejectsTarget(args) ==
    IF Len(args) < 2 THEN TRUE
    ELSE IF args[2] = <<>> THEN TRUE
    ELSE RejectsParsed(parseIntPrefix(args[2]))

TargetOf(args) == parseIntPrefix(args[2]).val

MainInit ==
    /\ Start(ProjectTrees(MaxFiles))
    /\ argv \in Argvs
    /\ exitCode = Undefined

\* case "check": the report, and exit code 1 on a mismatch.
MainChecked(r) ==
    /\ report' = r
    /\ exitCode' = IF r.hasMismatch \/ r.status = "threw" THEN <<1>> ELSE <<0>>

MainCheck ==
    /\ argv[1] = CheckCommand
    /\ exitCode = Undefined
    /\ MainChecked(generateReport(fs, Undefined))
    /\ UNCHANGED <<fs, now, diskFull, envLeft, argv>>
    /\ UNCHANGED updateVars

\* case "update": process.exit(1) on a missing or invalid version argument,
MainReject ==
    /\ argv[1] = UpdateCommand
    /\ exitCode = Undefined
    /\ RejectsTarget(argv)
    /\ exitCode' = <<1>>
    /\ UNCHANGED <<fs, now, diskFull, report, envLeft, argv>>
    /\ UNCHANGED updateVars

\* otherwise the report of the current state first,
MainReport ==
    /\ argv[1] = UpdateCommand
    /\ exitCode = Undefined
    /\ ~RejectsTarget(argv)
    /\ report = NoReport
    /\ report' = generateReport(fs, <<TargetOf(argv)>>)
    /\ UNCHANGED <<fs, now, diskFull, envLeft>>
    /\ UNCHANGED updateVars
    /\ UNCHANGED mainVars

\* then updateAllVersions with the options of the command line,
MainUpdate ==
    /\ argv[1] = UpdateCommand
    /\ exitCode = Undefined
    /\ report.status = "returned"
    /\ runs = 0
    /\ UpdateStart(TargetOf(argv), includes(argv, DryRunFlag),
                   ~includes(argv, NoBackupFlag))

\* and exit code 1 when a result is a failure.
MainExit ==
    /\ argv[1] = UpdateCommand
    /\ exitCode = Undefined
    /\ pc = "idle"
    /\ runs > 0
    /\ exitCode' = IF outcome = "threw"
                       \/ \E i \in 1..Len(results) : ~results[i].success
                   THEN <<1>> ELSE <<0>>
    /\ UNCHANGED <<fs, now, diskFull, report, envLeft, argv>>
    /\ UNCHANGED updateVars

MainNext ==
    \/ MainCheck
    \/ MainReject
    \/ MainReport
    \/ MainUpdate
    \/ UpdateStep
    \/ UpdateReturn
    \/ MainExit

MainSpec == MainInit /\ [][MainNext]_vars

(***************************************************************************)
(* Properties.  In a step of the loop that returns a result, idx' = idx + 1 *)
(* and the result and the calls made for it are results'[idx], trace'[idx]. *)
(***************************************************************************)
\* C1: Dry-run purity.  No step taken by a call with dryRun = true changes the
\* file system, whatever the backup option and whatever the results say; no
\* such call makes a copyFileSync or writeFileSync call, no result of it has
\* backedUp true, and when nothing else touched the tree it is, file for
\* file, the tree the call started from (so no backup file was created).
DryRunPurity ==
    /\ [][(opts'.dryRun /\ envLeft' = envLeft) => fs' = fs]_vars
    /\ [](opts.dryRun =>
             /\ \A i \in 1..Len(results) : ~results[i].backedUp /\ trace[i] = <<>>
             /\ envLeft = MaxEnv => fs = fsStart)

\* C1, reached: a dry run with backup enabled has returned, reporting a
\* successful change for a record that is not at the target, with the tree
\* as it was.
DryRunReported ==
    /\ opts.dryRun /\ opts.backup
    /\ outcome = "returned"
    /\ fs = fsStart
    /\ \E i \in 1..Len(results) :
           /\ versions[i].majorVersion # target
           /\ results[i].success
           /\ results[i].newVersion # results[i].oldVersion

\* The call before this one returned, was no dry run and had the same target;
\* this one is no dry run either.
SecondRun ==
    /\ prev.outcome = "returned"
    /\ ~prev.dryRun
    /\ prev.target = target
    /\ ~opts.dryRun
    /\ outcome # "threw"

\* C2: Idempotence.  In the second of two successive runs with the same target
\* (no dry run, nothing else touching the tree) every record of the scan is at
\* the target and gets a successful result without a write or a backup, and
\* the tree stays, byte for byte, the tree the first run left.
Idempotence ==
    SecondRun =>
        /\ fs = fsStart
        /\ \A i \in 1..Len(versions) : versions[i].majorVersion = target
        /\ \A i \in 1..Len(results) :
               /\ results[i].success
               /\ ~results[i].backedUp
               /\ trace[i] = <<>>

\* C2, reached: the second run has returned results, after a first run that
\* rewrote a file (its backup is in the tree).
SecondRunReturned ==
    /\ SecondRun
    /\ outcome = "returned"
    /\ results # <<>>
    /\ \E p \in DOMAIN fs : p \notin Paths

\* C3 as stated: Partial-failure isolation.  A call whose scan found records
\* ends by returning one result per record, in scan order; no failure while
\* updating one file ends the call early.
PartialFailureIsolation ==
    (pc = "idle" /\ runs > 0 /\ versions # <<>>) =>
        /\ outcome = "returned"
        /\ Len(results) = Len(versions)
        /\ \A i \in 1..Len(results) : results[i].file = versions[i].file

CopyOk(ops, c) == ops[c].op = "copyFile" /\ ops[c].ok

WriteOk(ops, w) == ops[w].op = "writeFile" /\ ops[w].ok

IsBackupOf(name, filePath) ==
    /\ name # filePath
    /\ Len(name) > Len(filePath)
    /\ SubSeq(name, 1, Len(filePath)) = filePath

\* What C4 says of one result r, the calls ops made for it, and the trees
\* before and after.
BackupStep(before, after, options, r, ops) ==
    /\ options.backup =>
           \A w \in 1..Len(ops) : ops[w].op = "writeFile" =>
               \E c \in 1..(w - 1) :
                   /\ CopyOk(ops, c)
                   /\ ops[c].path = ops[w].path
                   /\ IsBackupOf(ops[c].to, ops[c].path)
                   /\ ops[c].to \in DOMAIN after
                   /\ after[ops[c].to].content = before[ops[c].path].content
    /\ (options.backup /\ r.file \in DOMAIN before /\ r.file \in DOMAIN after
            /\ after[r.file].content # before[r.file].content) =>
           \E b \in DOMAIN after :
               /\ IsBackupOf(b, r.file)
               /\ after[b].content = before[r.file].content
    /\ (\E c \in 1..Len(ops) : ops[c].op = "copyFile" /\ ~ops[c].ok) =>
           /\ \A w \in 1..Len(ops) : ops[w].op # "writeFile"
           /\ r.file \in DOMAIN before =>
                  r.file \in DOMAIN after /\ after[r.file] = before[r.file]
           /\ ~r.success
           /\ r.error # ""
    /\ r.backedUp <=>
           \E c \in 1..Len(ops) : \E w \in (c + 1)..Len(ops) :
               CopyOk(ops, c) /\ WriteOk(ops, w)

\* C4: Backup before write.  In an update that is no dry run, with backup
\* enabled, a file is written only after its backup was made, at a path
\* that extends the file's own, holding the content the file had; when the
\* backup fails the file is not written and the result is failed; and a
\* result has backedUp true exactly when the backup was made and the write
\* after it succeeded.
BackupBeforeWrite ==
    [][(pc = "loop" /\ idx' = idx + 1 /\ ~opts.dryRun) =>
           BackupStep(fs, fs', opts, results'[idx], trace'[idx])]_vars

\* C4, reached: a result with backedUp true, whose backup is in the tree and
\* differs from the rewritten file.
BackedUpReported ==
    \E i \in 1..Len(results) :
        /\ results[i].backedUp
        /\ Len(trace[i]) = 2
        /\ trace[i][1].to \in DOMAIN fs
        /\ results[i].file \in DOMAIN fs
        /\ fs[trace[i][1].to].content # fs[results[i].file].content

\* C5 as stated: Backup files are write-once.  A backup file in the tree is
\* still there after every step, with the content it had.
BackupsWriteOnce ==
    [][\A p \in DOMAIN fs : p \notin Paths => (p \in DOMAIN fs' /\ fs'[p] = fs[p])]_vars

\* C6: Already-at-target files are left alone.  The turn of the loop for a
\* record whose major version is the target leaves the whole tree as it is
\* (no write, no backup), makes no file system call, and gives a successful
\* result for the record's file without backedUp, whatever the options.
AtTargetUntouched ==
    [][(pc = "loop" /\ idx' = idx + 1 /\ versions[idx].majorVersion = target) =>
           /\ fs' = fs
           /\ trace'[idx] = <<>>
           /\ results'[idx].file = versions[idx].file
           /\ results'[idx].success
           /\ ~results'[idx].backedUp]_vars

\* C6, reached: an update with backup enabled that is no dry run has given the
\* result of a record at the target, after rewriting another file.
AtTargetReported ==
    /\ ~opts.dryRun /\ opts.backup
    /\ \E i \in 1..Len(results) :
           /\ versions[i].majorVersion = target
           /\ results[i].success
    /\ \E j \in 1..Len(results) : results[j].backedUp

\* C7: Mismatch detection.  hasMismatch is true exactly when two records of
\* the report carry different major versions, with or without a target given.
MismatchDetection ==
    report.status = "returned" =>
        (report.hasMismatch <=>
            \E i, j \in 1..Len(report.versions) :
                report.versions[i].majorVersion # report.versions[j].majorVersion)

\* C7, reached: a report with a target given, three records on two majors,
\* and hasMismatch true.
MismatchReported ==
    /\ report.status = "returned"
    /\ report.given # Undefined
    /\ Len(report.versions) = 3
    /\ report.versions[1].majorVersion = report.versions[2].majorVersion
    /\ report.versions[1].majorVersion # report.versions[3].majorVersion
    /\ report.hasMismatch

CountOf(vs, m) == Cardinality({i \in 1..Len(vs) : vs[i].majorVersion = m})

FirstOf(vs, m) == MinOr({i \in 1..Len(vs) : vs[i].majorVersion = m}, Len(vs) + 1)

\* m has the highest number of records; among the majors with that number it
\* is the first in scan order.
IsMajority(vs, m) ==
    /\ CountOf(vs, m) > 0
    /\ \A j \in 1..Len(vs) :
           \/ CountOf(vs, vs[j].majorVersion) < CountOf(vs, m)
           \/ /\ CountOf(vs, vs[j].majorVersion) = CountOf(vs, m)
              /\ FirstOf(vs, m) <= FirstOf(vs, vs[j].majorVersion)

\* C8: Majority inference.  Without a target given, the resolved target is the
\* major with the highest number of records, the first in scan order among
\* equals; without any record it is absent.
MajorityInference ==
    (report.status = "returned" /\ report.given = Undefined) =>
        IF report.versions = <<>>
        THEN report.targetVersion = Undefined
        ELSE /\ Len(report.targetVersion) = 1
             /\ IsMajority(report.versions, report.targetVersion[1])

\* C8, reached: no target given, the first two records tie on different
\* majors, and the resolved target is the first one, the larger of the two.
TieResolved ==
    /\ report.status = "returned"
    /\ report.given = Undefined
    /\ Len(report.versions) >= 2
    /\ report.versions[1].majorVersion > report.versions[2].majorVersion
    /\ CountOf(report.versions, report.versions[1].majorVersion)
           = CountOf(report.versions, report.versions[2].majorVersion)
    /\ report.targetVersion = <<report.versions[1].majorVersion>>

ImageRe(type) == IF type = "dockerfile" THEN FromNodeRe ELSE ImageNodeRe

ImageKeyword(type) ==
    IF type = "dockerfile" THEN <<"FROM", " ", "node:">> ELSE <<"image:", " ", "node:">>

\* What C9 says of the rewrite of content c, whose declaration is the match m,
\* into content d, and of the scan after it.
SuffixKept(versionInfo, t, c, m, d, scan) ==
    (m.ok /\ SubSeq(c, m.from, m.from + 2) = ImageKeyword(versionInfo.fileType)) =>
        /\ d = SubSeq(c, 1, m.from + 2) \o toString(t)
                   \o SubSeq(c, m.from + 3 + Len(m.g1), Len(c))
        /\ SubSeq(d, m.from + 3 + Len(toString(t)),
                  m.from + 2 + Len(toString(t)) + Len(m.g2)) = m.g2
        /\ \E j \in 1..Len(scan.versions) :
               /\ scan.versions[j].file = versionInfo.file
               /\ scan.versions[j].majorVersion = t
               /\ scan.versions[j].fullVersion = toString(t) \o m.g2

\* C9: Suffix preservation.  A successful update, no dry run, of a Dockerfile
\* line FROM node:<old><suffix> or a docker-compose.yml line
\* image: node:<old><suffix> with old other than the target replaces the
\* digits of <old> by the target and nothing else: the suffix and the rest of
\* the file are as before, and a scan of the tree then reports the target as
\* major and <target><suffix> as full version.
SuffixPreservation ==
    [][(/\ pc = "loop" /\ idx' = idx + 1
        /\ ~opts.dryRun
        /\ versions[idx].fileType \in {"dockerfile", "docker-compose"}
        /\ versions[idx].majorVersion # target
        /\ results'[idx].success) =>
           SuffixKept(versions[idx], target, fs[versions[idx].file].content,
                      Match(ImageRe(versions[idx].fileType),
                            fs[versions[idx].file].content),
                      fs'[versions[idx].file].content,
                      scanVersions(fs'))]_vars

\* C9, reached: image: node:18-alpine of docker-compose.yml was rewritten and
\* the result reports <target>-alpine.
SuffixRewritten ==
    /\ ~opts.dryRun
    /\ \E i \in 1..Len(results) :
           /\ versions[i].fileType = "docker-compose"
           /\ versions[i].majorVersion # target
           /\ results[i].success
           /\ results[i].oldVersion = <<"1", "8", "-alpine">>
           /\ results[i].newVersion = toString(target) \o <<"-alpine">>
           /\ DockerComposePath \in DOMAIN fs
           /\ fs[DockerComposePath].content
                  = <<"services:", NL, " ", "image:", " ", "node:">>
                        \o toString(target) \o <<"-alpine", NL>>

\* C10 as stated: Extraction never fails.  No call ends with an exception out
\* of scanVersions: a call that ended with an exception had records to update.
ExtractionNeverFails ==
    (runs > 0 /\ outcome = "threw") => versions # <<>>

\* Every declaration of pattern p in content s gives the major version t.
AllDeclare(p, s, t) ==
    \A i \in 1..Len(s) : MatchAt(p, s, i).ok => parseInt(MatchAt(p, s, i).g1) = t

\* C11 as stated: Workflow files, both keys.  After a non-dry-run call that
\* returned with every result successful, every node-version and every
\* NODE_VERSION declaration of every scanned workflow file declares the
\* target.
WorkflowKeysAtTarget ==
    (/\ pc = "idle" /\ outcome = "returned" /\ ~opts.dryRun
     /\ \A i \in 1..Len(results) : results[i].success) =>
        \A i \in 1..Len(versions) :
            (versions[i].fileType = "github-workflow"
                 /\ versions[i].file \in DOMAIN fs) =>
                /\ AllDeclare(NodeVersionRe, fs[versions[i].file].content, target)
                /\ AllDeclare(NodeEnvRe, fs[versions[i].file].content, target)

\* The value of the first run of digits in text s starting at its first digit
\* d, for a text that has one.
FirstIntegerFrom(s, d) ==
    parseInt(SelectSeq(SubSeq(s, d, (CHOOSE e \in d..Len(s) :
                                        /\ \A k \in d..e : s[k] \in Digit
                                        /\ e = Len(s) \/ s[e + 1] \notin Digit)),
                       IsDigit))

HasInteger(s) == \E i \in 1..Len(s) : s[i] \in Digit

FirstDigitOf(s) == CHOOSE i \in 1..Len(s) : s[i] \in Digit /\ \A k \in 1..(i - 1) : s[k] \notin Digit

\* C12 as stated: Record invariant.  Every record of a report has a full
\* version with an integer in it, and its major version is the first run of
\* digits of the full version.
RecordInvariant ==
    \A i \in 1..Len(report.versions) :
        /\ HasInteger(report.versions[i].fullVersion)
        /\ report.versions[i].majorVersion
               = FirstIntegerFrom(report.versions[i].fullVersion,
                                  FirstDigitOf(report.versions[i].fullVersion))

\* The text is an integer: an optional minus sign, then digits only.
IsIntegerText(a) ==
    /\ Len(a) > SignEnd(a) - 1
    /\ \A k \in SignEnd(a)..Len(a) : a[k] \in Digit

\* The version argument of the update command is missing, is no number, or
\* is a number less than 1.
InvalidTargetArg ==
    IF Len(argv) < 2 THEN TRUE
    ELSE IF ~IsIntegerText(argv[2]) THEN TRUE
    ELSE IF argv[2][1] = "-" THEN TRUE
    ELSE parseInt(argv[2]) < 1

\* C13 as stated: Invalid target rejected up front.  With a version argument
\* that is missing, not numeric or less than 1, the update command reaches
\* neither the report (the scan) nor updateAllVersions, writes no file and no
\* backup, and exits with code 1 if it has exited; and whenever it does reach
\* them the target is an integer of at least 1.
InvalidTargetRejected ==
    (Len(argv) >= 1 /\ argv[1] = UpdateCommand) =>
        /\ InvalidTargetArg =>
               /\ report = NoReport
               /\ runs = 0
               /\ fs = fsStart
               /\ exitCode \in {Undefined, <<1>>}
        /\ report # NoReport => report.given[1] >= 1
        /\ runs > 0 => target >= 1

\* A scan of tree f gives a record for the file.
Recognised(scan, file) ==
    \E j \in 1..Len(scan.versions) : scan.versions[j].file = file

\* C14 as stated: Pattern lost between scan and update.  When the loop turns
\* to a record that is not at the target and whose file, still there and
\* readable, no longer holds the pattern of its format (a scan of the tree
\* would give no record for it), the result is a failure with a reason and
\* the tree is left as it is.
PatternLostFails ==
    [][(/\ pc = "loop" /\ idx' = idx + 1
        /\ versions[idx].majorVersion # target
        /\ CanRead(fs, versions[idx].file)
        /\ ~Recognised(scanVersions(fs), versions[idx].file)) =>
           /\ ~results'[idx].success
           /\ results'[idx].error # ""
           /\ fs' = fs]_vars

\* formatUpdateResultsMarkdown: the status column of result r.
StatusOf(r, dryRun) ==
    IF r.success
    THEN IF r.oldVersion = r.newVersion THEN "No change needed"
         ELSE IF dryRun THEN "Will update"
         ELSE "Updated"
    ELSE "Error: " \o r.error

\* C15 as stated: Outcome reporting.  The status rendered for a result is
\* "No change needed" exactly when the record was already at the target major.
OutcomeReporting ==
    \A i \in 1..Len(results) :
        StatusOf(results[i], opts.dryRun) = "No change needed"
            <=> versions[i].majorVersion = target

\* The file is a backup made by the tool: a name beyond the project's own.
IsBackup(p) == \E q \in Paths : IsBackupOf(p, q)

\* C16: Backups are never picked up as version files.  Whatever backups the
\* tree holds, a scan of it gives no record for a backup; no record and no
\* result of a call names a backup, and no write of an update goes to one.
BackupsNotScanned ==
    /\ \A i \in 1..Len(versions) : ~IsBackup(versions[i].file)
    /\ \A i \in 1..Len(results) :
           /\ ~IsBackup(results[i].file)
           /\ \A k \in 1..Len(trace[i]) :
                  trace[i][k].op = "writeFile" => ~IsBackup(trace[i][k].to)
    /\ pc = "idle" => \A p \in DOMAIN fs : IsBackup(p) => ~Recognised(scanVersions(fs), p)

\* C16, reached: a second call has returned results for a tree that held, when
\* it started, the backup of a workflow file and a backup of another file.
ScannedBesideBackups ==
    /\ runs = 2
    /\ outcome = "returned"
    /\ results # <<>>
    /\ \E p \in DOMAIN fsStart : IsBackup(p) /\ p[1] = WorkflowDir
    /\ \E p \in DOMAIN fsStart : IsBackup(p) /\ p[1] # WorkflowDir

=============================================================================
